---- MODULE Spec2Model ----
(***************************************************************************)
(* A model of pycardano/key.py: the Key container, its JSON interchange     *)
(* codec, the hash / sign role extensions, the four concrete key variants   *)
(* and the two key pair factories.                                          *)
(*                                                                          *)
(* A byte string is a sequence over Bytes.  A hex string is a sequence of   *)
(* hex digit values 0..15 (16 stands for a character that is no hex digit). *)
(* An optional string argument is a record [given, val]; a call result is   *)
(* [exc |-> "", ret |-> v] or [exc |-> <exception name>].                   *)
(***************************************************************************)
EXTENDS Integers, Sequences, FiniteSets, TLC

VARIABLES
    self,   \* the key object under observation, NoKey before it is constructed
    born,   \* the arguments of the constructor call that built self
    res     \* the record of the last call: operation, arguments, result

vars == <<self, born, res>>

-----------------------------------------------------------------------------
(* Bounds and input sets *)

\* Longest payload / seed / message the model draws.
MaxLen == 2

\* The seed size the signing primitive accepts (crypto_sign_SEEDBYTES, 32 in
\* libsodium), scaled to the payload bound so that too short, valid and too
\* long seeds all occur.
SeedSize == 1

Bytes == {0, 200}

RECURSIVE SeqsUpTo(_, _)
SeqsUpTo(S, n) ==
    IF n = 0 THEN {<<>>}
    ELSE LET shorter == SeqsUpTo(S, n - 1)
         IN  shorter \cup {Append(s, x) : s \in {t \in shorter : Len(t) = n - 1}, x \in S}

Payloads == SeqsUpTo(Bytes, MaxLen)

Seeds == {b \in Payloads : Len(b) = SeedSize}

-----------------------------------------------------------------------------
(* Optional arguments and call results *)

None == [given |-> FALSE, val |-> ""]

Str(s) == [given |-> TRUE, val |-> s]

\* Python truthiness of an optional string: None and "" are both falsy.
Truthy(x) == x.given /\ x.val # ""

Return(v) == [exc |-> "", ret |-> v]

Raise(e) == [exc |-> e]

-----------------------------------------------------------------------------
(* The concrete variants *)

SigningKeys == {"PaymentSigningKey", "StakeSigningKey"}

AddressKeys == {"PaymentVerificationKey", "StakeVerificationKey"}

KeyClasses == SigningKeys \cup AddressKeys

KEY_TYPE(cls) ==
    CASE cls = "PaymentSigningKey"      -> "PaymentSigningKeyShelley_ed25519"
      [] cls = "PaymentVerificationKey" -> "PaymentVerificationKeyShelley_ed25519"
      [] cls = "StakeSigningKey"        -> "StakeSigningKeyShelley_ed25519"
      [] cls = "StakeVerificationKey"   -> "StakeVerificationKeyShelley_ed25519"

DESCRIPTION(cls) ==
    CASE cls = "PaymentSigningKey"      -> "Payment Verification Key"
      [] cls = "PaymentVerificationKey" -> "Payment Verification Key"
      [] cls = "StakeSigningKey"        -> "Stake Verification Key"
      [] cls = "StakeVerificationKey"   -> "Stake Verification Key"

-----------------------------------------------------------------------------
(* Key *)

NoKey == [cls |-> "NoKey"]

IsKey(x) == x.cls \in KeyClasses

Key_init(cls, payload, key_type, description) ==
    [cls         |-> cls,
     payload     |-> payload,
     key_type    |-> IF Truthy(key_type) THEN key_type.val ELSE KEY_TYPE(cls),
     description |-> IF Truthy(description) THEN description.val ELSE KEY_TYPE(cls)]

Key_serialize(k) == k.payload

Key_deserialize(cls, value) == Key_init(cls, value, None, None)

-----------------------------------------------------------------------------
(* The binary codec of CBORSerializable (pycardano/serialization.py): a byte *)
(* string is encoded as a CBOR byte string, the encoding is written in hex.  *)

\* Two hex digits per byte, high digit first.
RECURSIVE to_hex(_)
to_hex(bs) ==
    IF bs = <<>> THEN <<>>
    ELSE <<Head(bs) \div 16, Head(bs) % 16>> \o to_hex(Tail(bs))

\* bytes.fromhex: fails on an odd number of digits or on a character that is
\* no hex digit.
RECURSIVE hex_pairs(_)
hex_pairs(hs) ==
    IF hs = <<>> THEN <<>>
    ELSE <<16 * hs[1] + hs[2]>> \o hex_pairs(SubSeq(hs, 3, Len(hs)))

from_hex(hs) ==
    IF Len(hs) % 2 # 0 \/ \E i \in 1..Len(hs) : hs[i] \notin 0..15
    THEN Raise("ValueError")
    ELSE Return(hex_pairs(hs))

\* A byte string shorter than 24 bytes: the head byte is major type 2 with the
\* length in its low five bits, the bytes follow.
cbor_encode(bs) == <<64 + Len(bs)>> \o bs

cbor_decode(data) ==
    IF data # <<>> /\ data[1] = 64 + (Len(data) - 1)
    THEN Return(Tail(data))
    ELSE Raise("CBORDecodeError")

to_cbor(k) == to_hex(cbor_encode(Key_serialize(k)))

from_cbor(cls, payload) ==
    LET raw == from_hex(payload)
    IN  IF raw.exc # "" THEN raw
        ELSE LET value == cbor_decode(raw.ret)
             IN  IF value.exc # "" THEN value
                 ELSE Return(Key_deserialize(cls, value.ret))

-----------------------------------------------------------------------------
(* JSON: a text is well formed (it parses to the object it was written from) *)
(* or it is not.                                                             *)

json_dumps(obj) == [wf |-> TRUE, obj |-> obj]

MalformedText == [wf |-> FALSE]

Key_to_json_static_description(k) ==
    json_dumps([type        |-> k.key_type,
                description |-> DESCRIPTION(k.cls),
                cborHex     |-> to_cbor(k)])

Key_to_json(k) ==
    json_dumps([type        |-> k.key_type,
                description |-> k.description,
                cborHex     |-> to_cbor(k)])

\* The payload is decoded before the type is checked.
Key_from_json_decode_first(cls, data, validate_type) ==
    IF ~data.wf THEN Raise("JSONDecodeError")
    ELSE LET obj == data.obj
         IN  IF "cborHex" \notin DOMAIN obj THEN Raise("KeyError")
             ELSE LET k == from_cbor(cls, obj.cborHex)
                  IN  IF k.exc # "" THEN k
                      ELSE IF "type" \notin DOMAIN obj THEN Raise("KeyError")
                      ELSE IF validate_type /\ obj.type # KEY_TYPE(cls)
                           THEN Raise("InvalidKeyTypeException")
                      ELSE IF "description" \notin DOMAIN obj THEN Raise("KeyError")
                      ELSE Return(Key_init(cls, k.ret.payload,
                                           Str(obj.type), Str(obj.description)))

Key_from_json(cls, data, validate_type) ==
    IF ~data.wf THEN Raise("JSONDecodeError")
    ELSE LET obj == data.obj
         IN  IF validate_type /\ "type" \notin DOMAIN obj THEN Raise("KeyError")
             ELSE IF validate_type /\ obj.type # KEY_TYPE(cls)
                  THEN Raise("InvalidKeyTypeException")
             ELSE IF "cborHex" \notin DOMAIN obj THEN Raise("KeyError")
             ELSE LET k == from_cbor(cls, obj.cborHex)
                  IN  IF k.exc # "" THEN k
                      ELSE IF "type" \notin DOMAIN obj THEN Raise("KeyError")
                      ELSE IF "description" \notin DOMAIN obj THEN Raise("KeyError")
                      ELSE Return(Key_init(cls, k.ret.payload,
                                           Str(obj.type), Str(obj.description)))

\* The key type is left out of the comparison.
Key_eq_ignore_type(k, other) ==
    IF ~IsKey(other) THEN FALSE
    ELSE k.payload = other.payload /\ k.description = other.description

Key_eq(k, other) ==
    IF ~IsKey(other) THEN FALSE
    ELSE /\ k.payload = other.payload
         /\ k.description = other.description
         /\ k.key_type = other.key_type

Key_repr(k) == Key_to_json(k)

-----------------------------------------------------------------------------
(* The primitives of nacl, as the calls of key.py use them *)

\* The public key of a seed: a fixed one-to-one function of the seed, which
\* is not its own inverse and has no fixed point among the bytes drawn.
ed25519_public(seed) == [i \in 1..Len(seed) |-> (7 * seed[i] + 13) % 256]

\* NACLSigningKey(seed): rejects a seed that is not SeedSize bytes long.
NACLSigningKey(seed) ==
    IF Len(seed) # SeedSize THEN Raise("ValueError")
    ELSE Return([seed |-> seed, verify_key |-> ed25519_public(seed)])

AddressKey_hash(k) ==
    [cls |-> "AddrKeyHash",
     payload |-> [fn |-> "blake2b", data |-> k.payload, digest_size |-> "ADDR_KEYHASH_SIZE"]]

SigningKey_sign(k, data) ==
    LET sk == NACLSigningKey(k.payload)
    IN  IF sk.exc # "" THEN sk
        ELSE Return([fn |-> "ed25519_sign", seed |-> sk.ret.seed, message |-> data])

-----------------------------------------------------------------------------
(* Key pairs *)

PairClasses == {"PaymentKeyPair", "StakeKeyPair"}

SigningClass(p) == IF p = "PaymentKeyPair" THEN "PaymentSigningKey" ELSE "StakeSigningKey"

VerificationClass(p) ==
    IF p = "PaymentKeyPair" THEN "PaymentVerificationKey" ELSE "StakeVerificationKey"

KeyPair_init(p, signing_key, verification_key) ==
    [cls              |-> p,
     signing_key      |-> Key_init(SigningClass(p), signing_key, None, None),
     verification_key |-> Key_init(VerificationClass(p), verification_key, None, None)]

\* The seed is not handed to the signing primitive: the pair is built from
\* the bytes as they are.
KeyPair_from_private_key_unchecked(p, signing_key) ==
    Return(KeyPair_init(p, signing_key, signing_key))

\* The two byte strings reach the constructor in the wrong order.
KeyPair_from_private_key_swapped(p, signing_key) ==
    LET sk == NACLSigningKey(signing_key)
    IN  IF sk.exc # "" THEN sk
        ELSE Return(KeyPair_init(p, sk.ret.verify_key, signing_key))

KeyPair_from_private_key(p, signing_key) ==
    LET sk == NACLSigningKey(signing_key)
    IN  IF sk.exc # "" THEN sk
        ELSE Return(KeyPair_init(p, signing_key, sk.ret.verify_key))

\* PrivateKey.generate() returns SeedSize random bytes.
KeyPair_generate(p, random) == KeyPair_from_private_key(p, random)

-----------------------------------------------------------------------------
(* Inputs *)

OptStrs(custom) == {None, Str(""), Str(custom)}

Messages == {b \in Payloads : Len(b) <= 1}

\* Hex strings a key file may hold: encodings of payloads, an odd number of
\* digits, a character that is no digit, a byte string cut short.
HexInputs ==
    {to_hex(cbor_encode(b)) : b \in {<<>>, <<200>>}} \cup {<<4>>, <<4, 16>>, <<4, 1>>}

JsonTexts(cls) ==
    {json_dumps([type |-> t, description |-> d, cborHex |-> h]) :
        t \in {"", "tc", KEY_TYPE(cls)}, d \in {"", "dc"}, h \in HexInputs}
    \cup {json_dumps([type |-> t, description |-> "dc"]) : t \in {"tc", KEY_TYPE(cls)}}
    \cup {json_dumps([type |-> t, cborHex |-> <<4, 0>>]) : t \in {"tc", KEY_TYPE(cls)}}
    \cup {json_dumps([description |-> "dc", cborHex |-> <<4, 0>>]), MalformedText}

\* Values a key is compared with: keys of its own and of another variant, with
\* its own and with other fields, and an object with the same three
\* attributes that is no Key.
Others(k) ==
    {Key_init(c, b, t, d) : c \in {k.cls, "StakeVerificationKey"}, b \in {k.payload, <<>>},
                            t \in {None, Str("tc")}, d \in {None, Str("dc")}}
    \cup {[k EXCEPT !.cls = c] : c \in KeyClasses}
    \cup {[k EXCEPT !.cls = "object"]}

-----------------------------------------------------------------------------
(* The life of a key: constructed once, then only read *)

NoCall == [op |-> "none"]

Init ==
    /\ self = NoKey
    /\ born = NoCall
    /\ res = NoCall

New ==
    /\ self = NoKey
    /\ \E cls \in KeyClasses, b \in Payloads, t \in OptStrs("tc"), d \in OptStrs("dc") :
          /\ self' = Key_init(cls, b, t, d)
          /\ born' = [op |-> "init", cls |-> cls, payload |-> b,
                      key_type |-> t, description |-> d]
          /\ res' = born'

\* serialize() that hands out the payload and leaves the key empty.
Serialize_consuming ==
    /\ self # NoKey
    /\ res' = [op |-> "serialize", out |-> Return(Key_serialize(self))]
    /\ self' = [self EXCEPT !.payload = <<>>]
    /\ UNCHANGED born

Serialize ==
    /\ self # NoKey
    /\ res' = [op |-> "serialize", out |-> Return(Key_serialize(self))]
    /\ UNCHANGED <<self, born>>

\* cls.deserialize(self.serialize()): builds another key.
Deserialize ==
    /\ self # NoKey
    /\ \E cls \in KeyClasses :
          res' = [op |-> "deserialize", cls |-> cls, value |-> Key_serialize(self),
                  out |-> Return(Key_deserialize(cls, Key_serialize(self)))]
    /\ UNCHANGED <<self, born>>

ToJson ==
    /\ self # NoKey
    /\ res' = [op |-> "to_json", out |-> Return(Key_to_json(self))]
    /\ UNCHANGED <<self, born>>

Repr ==
    /\ self # NoKey
    /\ res' = [op |-> "repr", out |-> Return(Key_repr(self))]
    /\ UNCHANGED <<self, born>>

\* cls.from_json(self.to_json(), validate_type): builds another key.
FromJson ==
    /\ self # NoKey
    /\ \E cls \in KeyClasses, validate_type \in BOOLEAN :
          res' = [op |-> "from_json", cls |-> cls, data |-> Key_to_json(self),
                  validate_type |-> validate_type,
                  out |-> Key_from_json(cls, Key_to_json(self), validate_type)]
    /\ UNCHANGED <<self, born>>

Eq ==
    /\ self # NoKey
    /\ \E other \in Others(self) :
          res' = [op |-> "eq", other |-> other, out |-> Return(Key_eq(self, other))]
    /\ UNCHANGED <<self, born>>

Hash ==
    /\ self # NoKey
    /\ self.cls \in AddressKeys
    /\ res' = [op |-> "hash", out |-> Return(AddressKey_hash(self))]
    /\ UNCHANGED <<self, born>>

Sign ==
    /\ self # NoKey
    /\ self.cls \in SigningKeys
    /\ \E data \in Messages :
          res' = [op |-> "sign", data |-> data, out |-> SigningKey_sign(self, data)]
    /\ UNCHANGED <<self, born>>

Next ==
    \/ New
    \/ Serialize
    \/ Deserialize
    \/ ToJson
    \/ Repr
    \/ FromJson
    \/ Eq
    \/ Hash
    \/ Sign

Spec == Init /\ [][Next]_vars

-----------------------------------------------------------------------------
(* Restoring a key from a key file: cls.from_json(text, validate_type) *)

FromJsonText ==
    /\ \E cls \in KeyClasses, validate_type \in BOOLEAN : \E data \in JsonTexts(cls) :
          res' = [op |-> "from_json", cls |-> cls, data |-> data,
                  validate_type |-> validate_type,
                  out |-> Key_from_json(cls, data, validate_type)]
    /\ UNCHANGED <<self, born>>

CodecNext == FromJsonText

CodecSpec == Init /\ [][CodecNext]_vars

-----------------------------------------------------------------------------
(* The key pair factories *)

PairInit ==
    /\ \E p \in PairClasses, sk \in Payloads, vk \in Payloads :
          res' = [op |-> "pair_init", cls |-> p, signing_key |-> sk,
                  verification_key |-> vk, out |-> Return(KeyPair_init(p, sk, vk))]
    /\ UNCHANGED <<self, born>>

FromPrivateKey ==
    /\ \E p \in PairClasses, sk \in Payloads :
          res' = [op |-> "from_private_key", cls |-> p, signing_key |-> sk,
                  out |-> KeyPair_from_private_key(p, sk)]
    /\ UNCHANGED <<self, born>>

Generate ==
    /\ \E p \in PairClasses, random \in Seeds :
          res' = [op |-> "generate", cls |-> p, out |-> KeyPair_generate(p, random)]
    /\ UNCHANGED <<self, born>>

PairNext ==
    \/ PairInit
    \/ FromPrivateKey
    \/ Generate

PairSpec == Init /\ [][PairNext]_vars

-----------------------------------------------------------------------------
(* Properties *)

Constructed == self # NoKey

DefaultMetadata == born.op = "init" /\ ~born.key_type.given /\ ~born.description.given

\* A key file record with its three fields, whose cborHex is the hex of the
\* encoding of a byte string.
WellFormed(data) ==
    /\ data.wf
    /\ DOMAIN data.obj = {"type", "description", "cborHex"}
    /\ \E b \in Payloads : data.obj.cborHex = to_hex(cbor_encode(b))

PayloadOf(data) == CHOOSE b \in Payloads : data.obj.cborHex = to_hex(cbor_encode(b))

\* The verification key of a pair is the public key of its signing key.
Linked(kp) ==
    LET sk == NACLSigningKey(kp.signing_key.payload)
    IN  sk.exc = "" /\ kp.verification_key.payload = sk.ret.verify_key

\* The keys of a pair are of the pair's own signing and verification variant.
OwnVariants(kp) ==
    /\ kp.signing_key.cls = SigningClass(kp.cls)
    /\ kp.verification_key.cls = VerificationClass(kp.cls)

\* C1: a key of a concrete variant V built with key_type and description
\* omitted has key_type = V.KEY_TYPE and description = V.DESCRIPTION.
C1_DefaultsAreVariantConstants ==
    (Constructed /\ DefaultMetadata) =>
        /\ self.payload = born.payload
        /\ self.key_type = KEY_TYPE(born.cls)
        /\ self.description = DESCRIPTION(born.cls)

\* C2: JSON round trip of a key V(b): V.from_json(V(b).to_json()) has payload
\* b, key_type V.KEY_TYPE and description V.DESCRIPTION.
C2_JsonRoundTripOfDefaultKey ==
    (Constructed /\ DefaultMetadata /\ res.op = "from_json" /\ res.cls = self.cls) =>
        /\ res.out.exc = ""
        /\ res.out.ret.payload = born.payload
        /\ res.out.ret.key_type = KEY_TYPE(res.cls)
        /\ res.out.ret.description = DESCRIPTION(res.cls)

\* C3: with validate_type, a record whose type differs from V.KEY_TYPE fails
\* with InvalidKeyTypeException whatever its other fields hold, and a well
\* formed record whose type is V.KEY_TYPE yields a key; without validate_type
\* InvalidKeyTypeException is never raised.
C3_TypeValidation ==
    res.op = "from_json" =>
        /\ (/\ res.validate_type
            /\ res.data.wf
            /\ "type" \in DOMAIN res.data.obj
            /\ res.data.obj.type # KEY_TYPE(res.cls))
               => res.out.exc = "InvalidKeyTypeException"
        /\ (/\ res.validate_type
            /\ WellFormed(res.data)
            /\ res.data.obj.type = KEY_TYPE(res.cls))
               => (res.out.exc = "" /\ IsKey(res.out.ret))
        /\ ~res.validate_type => res.out.exc # "InvalidKeyTypeException"

\* C3 witness: a record of another type whose cborHex is no hex string is
\* refused for its type.
C3_Witness ==
    /\ res.op = "from_json"
    /\ res.validate_type
    /\ res.data.wf
    /\ DOMAIN res.data.obj = {"type", "description", "cborHex"}
    /\ res.data.obj.type = "tc"
    /\ res.data.obj.cborHex = <<4, 16>>
    /\ res.out.exc = "InvalidKeyTypeException"

\* C4: without validate_type, a well formed record (t, d, hex(encode(b)))
\* yields a key with payload b, key_type t and description d, for every t and
\* d, the empty string included.
C4_RestoredMetadataIsTheRecords ==
    (res.op = "from_json" /\ ~res.validate_type /\ WellFormed(res.data)) =>
        /\ res.out.exc = ""
        /\ res.out.ret.payload = PayloadOf(res.data)
        /\ res.out.ret.key_type = res.data.obj.type
        /\ res.out.ret.description = res.data.obj.description

\* C5: k1 == k2 exactly when k2 is a key and payload, key_type and
\* description are all equal; a value that is no key is never equal to a key.
C5_Equality ==
    res.op = "eq" =>
        /\ res.out.ret = (/\ IsKey(res.other)
                          /\ self.payload = res.other.payload
                          /\ self.key_type = res.other.key_type
                          /\ self.description = res.other.description)
        /\ ~IsKey(res.other) => ~res.out.ret

\* C5 witness: two keys with the same payload and description and another
\* key_type compare unequal.
C5_Witness ==
    /\ res.op = "eq"
    /\ IsKey(res.other)
    /\ self.payload = res.other.payload
    /\ self.description = res.other.description
    /\ self.key_type # res.other.key_type
    /\ res.out.ret = FALSE

\* C6: every pair obtained from generate(), from_private_key(seed) or the
\* constructor is linked and holds keys of its own variants.
C6_EveryPairIsLinked ==
    (res.op \in {"pair_init", "from_private_key", "generate"} /\ res.out.exc = "") =>
        /\ Linked(res.out.ret)
        /\ OwnVariants(res.out.ret)

\* C6 as amended: every pair returned by generate() or from_private_key(seed)
\* is linked; a pair from any of the three, the constructor included, holds
\* keys of its own variants, and the constructor stores the two byte strings
\* it is given.
C6_FactoryPairsAreLinked ==
    /\ (res.op \in {"from_private_key", "generate"} /\ res.out.exc = "") =>
          /\ Linked(res.out.ret)
          /\ OwnVariants(res.out.ret)
    /\ res.op = "from_private_key" /\ res.out.exc = "" =>
          res.out.ret.signing_key.payload = res.signing_key
    /\ res.op = "pair_init" =>
          /\ res.out.exc = ""
          /\ OwnVariants(res.out.ret)
          /\ res.out.ret.signing_key.payload = res.signing_key
          /\ res.out.ret.verification_key.payload = res.verification_key

\* C6 witness: from_private_key returned a pair whose verification key is not
\* the signing key's own bytes.
C6_Witness ==
    /\ res.op = "from_private_key"
    /\ res.out.exc = ""
    /\ Linked(res.out.ret)
    /\ res.out.ret.verification_key.payload # res.out.ret.signing_key.payload

\* C7: V(b).serialize() = b, and V.deserialize(k.serialize()) has k's payload
\* and V's default metadata (V.KEY_TYPE, V.DESCRIPTION).
C7_BinaryRoundTrip ==
    /\ (Constructed /\ res.op = "serialize") => res.out.ret = born.payload
    /\ (Constructed /\ res.op = "deserialize") =>
          /\ res.out.ret.cls = res.cls
          /\ res.out.ret.payload = born.payload
          /\ res.out.ret.key_type = KEY_TYPE(res.cls)
          /\ res.out.ret.description = DESCRIPTION(res.cls)

\* C8: from_private_key fails, and returns no pair, when the bytes are not a
\* seed of the size the signing primitive accepts; it returns a pair when they
\* are; generate() never fails.
C8_SeedSizeIsChecked ==
    /\ res.op = "from_private_key" =>
          IF Len(res.signing_key) = SeedSize
          THEN res.out.exc = "" /\ res.out.ret.cls = res.cls
          ELSE res.out.exc = "ValueError" /\ DOMAIN res.out = {"exc"}
    /\ res.op = "generate" =>
          /\ res.out.exc = ""
          /\ Len(res.out.ret.signing_key.payload) = SeedSize

\* C8 witness: from_private_key refused bytes longer than a seed.
C8_Witness ==
    /\ res.op = "from_private_key"
    /\ Len(res.signing_key) > SeedSize
    /\ res.out.exc = "ValueError"

\* C9: no operation changes a field of a key that is already constructed.
C9_KeyIsImmutable == [][Constructed => self' = self]_vars

\* C9 witness: a signing key has signed, after which it still holds what its
\* constructor was given.
C9_Witness ==
    /\ Constructed
    /\ res.op = "sign"
    /\ res.out.exc = ""
    /\ born.key_type = Str("tc")
    /\ self.payload = born.payload
    /\ self.key_type = "tc"

\* C10: for a key k of V with default or explicitly given metadata,
\* V.from_json(k.to_json()) == k and its to_json() is k's; a constructed key
\* never has an empty key_type or description.
C10_FullJsonRoundTrip ==
    /\ Constructed => (self.key_type # "" /\ self.description # "")
    /\ (Constructed /\ res.op = "from_json" /\ res.cls = self.cls /\ ~res.validate_type) =>
          /\ res.out.exc = ""
          /\ res.out.ret.cls = self.cls
          /\ Key_eq(res.out.ret, self)
          /\ Key_to_json(res.out.ret) = res.data

\* C10 witness: a key built with a key_type and a description of its own came
\* back from its JSON form.
C10_Witness ==
    /\ Constructed
    /\ res.op = "from_json"
    /\ res.cls = self.cls
    /\ ~res.validate_type
    /\ born.key_type = Str("tc")
    /\ born.description = Str("dc")
    /\ res.out.exc = ""
    /\ res.out.ret.description = "dc"

====
